---- MODULE Spec2Model ----
(***************************************************************************)
(* ScoopSentinel: the alert poller (base.py) and the log compactor         *)
(* (cleanup.py) sharing the CSV log litter_log.csv.                        *)
(*                                                                         *)
(* Time is counted in minutes since local midnight of day 0 in the         *)
(* America/Chicago zone; daylight-saving transitions are not modelled, so  *)
(* an instant and its local wall-clock reading are the same number.        *)
(*                                                                         *)
(* A line of the log is a record of its four CSV cells.  A timestamp cell  *)
(* holding ISO-8601 text of instant t is <<t>>, any other text is << >>;   *)
(* a level cell holding a number with one decimal is <<tenths>>.           *)
(***************************************************************************)
EXTENDS Integers, Sequences, FiniteSets, TLC

VARIABLES
    now,        \* the wall clock, datetime.now(CENTRAL)
    logExists,  \* os.path.exists(LOG_FILE)
    log,        \* the lines of the file at LOG_FILE (<< >> when absent)
    pc,         \* poller: position in main()
    stage,      \* poller: which reading main() is handling
    tray,       \* poller: traylevel (percent)
    litter,     \* poller: raw litterLevel (mm); litterlevel = litter / 450
    ret,        \* poller: outcome of the last should_send / should_send_morning
    tnow,       \* poller: the `now` read by log_reading
    tdec,       \* poller: the `now` read by should_send, per kind
    hdr,        \* poller: write_header of log_reading, first_line test of _ensure_log_header
    body,       \* poller: body read by _ensure_log_header
    fd,         \* poller: state of the descriptor opened on LOG_FILE
    parts,      \* poller: kinds queued in `parts`
    cpc,        \* compactor: position in cleanup_log()
    cutoff,     \* compactor: cutoff
    fieldnames, \* compactor: reader.fieldnames
    idx,        \* compactor: number of lines of infile consumed
    tmpExists,  \* compactor: the temporary file exists on disk
    tmp,        \* compactor: lines of the temporary file
    tmp_path,   \* compactor: tmp_path is set (not None)
    failing,    \* compactor: an exception is propagating
    outcome,    \* compactor: how the last cleanup_log() call ended
    lock,       \* holder of the flock on LOCK_FILE, or NoOne
    TEST_MODE,  \* config.get("test", False)
    hist        \* observations: results, dispatches, snapshots

vars == <<now, logExists, log, pc, stage, tray, litter, ret, tnow, tdec, hdr, body, fd,
          parts, cpc, cutoff, fieldnames, idx, tmpExists, tmp, tmp_path,
          failing, outcome, lock, TEST_MODE, hist>>

-----------------------------------------------------------------------------
(* Program constants *)

BOXcutoff1 == 90
BOXcutoff2 == 70
\* litterLevel1 = 0.2 and litterLevel2 = 0.6, in tenths
litterLevel1 == 2
litterLevel2 == 6
\* litterlevel = float(dataDump["litterLevel"]) / 450
OptimalLitter == 450
\* timedelta(hours=1), timedelta(hours=4), timedelta(hours=48), in minutes
WindowUrgent == 60
WindowAdvisory == 240
Retention == 2880
\* quiet hours 8 <= now.hour < 23, digest hour 8 <= now.hour < 9
SendFrom == 8
SendUntil == 23
MorningUntil == 9

MinutesPerHour == 60
MinutesPerDay == 24 * MinutesPerHour

\* now.hour and now.date() of an aware datetime
HourOf(t) == (t % MinutesPerDay) \div MinutesPerHour
DateOf(t) == t \div MinutesPerDay

-----------------------------------------------------------------------------
(* The CSV file *)

\* now.isoformat() and datetime.fromisoformat()
isoformat(t) == <<t>>
IsIso(cell) == Len(cell) = 1
fromisoformat(cell) == cell[1]

\* f"{level:.1f}" of a container percentage, and of litterlevel * 100
FormatTray(p) == <<p * 10>>
FormatLitter(mm) == <<(mm * 2000 + OptimalLitter) \div (2 * OptimalLitter)>>

\* ",".join(LOG_FIELDNAMES)
HeaderLine == [timestamp |-> << >>, type |-> "type", level |-> << >>, sent |-> "sent"]

Row(t, msg_type, lvl, sent) ==
    [timestamp |-> isoformat(t), type |-> msg_type, level |-> lvl,
     sent |-> IF sent THEN "True" ELSE "False"]

\* csv.DictReader(f): the first line gives the keys, the rest are the rows.
\* The keys of a row are "timestamp", "type", "level", "sent" only when the first
\* line is the header; a data row used as the first line gives other keys.
ReaderRows(f) == IF f = << >> THEN << >> ELSE Tail(f)
HasKeys(f) == f # << >> /\ Head(f) = HeaderLine

RECURSIVE SelectRows(_, _)
SelectRows(rows, msg_type) ==
    IF rows = << >> THEN << >>
    ELSE LET r == Head(rows)
             rest == SelectRows(Tail(rows), msg_type)
         IN IF r.sent = "True" /\ r.type = msg_type THEN <<r>> \o rest ELSE rest

Last(s) == s[Len(s)]

-----------------------------------------------------------------------------
(* base.py: messages and gates *)

\* container_level with strict comparisons: a level equal to a threshold falls
\* into the tier below
container_level_Strict(level) ==
    IF level > BOXcutoff1 THEN "ALERT"
    ELSE IF level > BOXcutoff2 THEN "Hey"
    ELSE ""

\* container_level(level): which message is built ("" when below both thresholds)
container_level(level) ==
    IF level >= BOXcutoff1 THEN "ALERT"
    ELSE IF level >= BOXcutoff2 THEN "Hey"
    ELSE ""

\* litterlevel <= threshold, with litterlevel = mm / 450 and the threshold in tenths
LitterAtMost(mm, tenths) == mm * 10 <= tenths * OptimalLitter

\* litter_level_message(litterlevel): always a non-empty message
litter_level_message(mm) ==
    IF LitterAtMost(mm, litterLevel1) THEN "ALERT"
    ELSE IF LitterAtMost(mm, litterLevel2) THEN "refill"
    ELSE "fine"

\* Gate 1 with `now.hour <= 23`: texts still go out between 23:00 and midnight
WithinSendingHours_Late(t) == SendFrom <= HourOf(t) /\ HourOf(t) <= SendUntil

\* Gate 1 of should_send
WithinSendingHours(t) == SendFrom <= HourOf(t) /\ HourOf(t) < SendUntil

\* Window with the early returns lost: a reading below both thresholds falls
\* through to the Advisory window
Window_NoEarlyReturn(level, msg_type) ==
    IF msg_type = "container"
    THEN IF level >= BOXcutoff1 THEN {WindowUrgent} ELSE {WindowAdvisory}
    ELSE IF LitterAtMost(level, litterLevel1) THEN {WindowUrgent} ELSE {WindowAdvisory}

\* Gate 2a of should_send: the set holding the window, empty on the early return
Window(level, msg_type) ==
    IF msg_type = "container"
    THEN IF level >= BOXcutoff1 THEN {WindowUrgent}
         ELSE IF level >= BOXcutoff2 THEN {WindowAdvisory}
         ELSE {}
    ELSE IF LitterAtMost(level, litterLevel1) THEN {WindowUrgent}
         ELSE IF LitterAtMost(level, litterLevel2) THEN {WindowAdvisory}
         ELSE {}

\* Gate 2b of should_send, shared in shape with should_send_morning: the scan of
\* the log for the last sent row of msg_type.  "KeyError" when a row lacks the
\* key "sent", "ValueError" when the timestamp of the last match is not ISO text,
\* "none" when nothing matches, else "ok".
LastSentStatus(ex, f, msg_type) ==
    IF ~ex THEN "none"
    ELSE IF ReaderRows(f) # << >> /\ ~HasKeys(f) THEN "KeyError"
    ELSE LET rows == SelectRows(ReaderRows(f), msg_type)
         IN IF rows = << >> THEN "none"
            ELSE IF ~IsIso(Last(rows).timestamp) THEN "ValueError"
            ELSE "ok"

LastSentTime(f, msg_type) ==
    fromisoformat(Last(SelectRows(ReaderRows(f), msg_type)).timestamp)

\* should_send with `now - last_sent <= window`: a gap equal to the window is
\* still throttled
should_send_Inclusive(level, msg_type, t, ex, f) ==
    IF ~WithinSendingHours(t) THEN "False"
    ELSE IF Window(level, msg_type) = {} THEN "False"
    ELSE LET st == LastSentStatus(ex, f, msg_type)
         IN IF st = "none" THEN "True"
            ELSE IF st # "ok" THEN st
            ELSE IF \E w \in Window(level, msg_type) :
                        t - LastSentTime(f, msg_type) <= w
                 THEN "False"
                 ELSE "True"

\* should_send(level, msg_type) evaluated at clock t on the file (ex, f):
\* "True", "False", or the exception raised
should_send(level, msg_type, t, ex, f) ==
    IF ~WithinSendingHours(t) THEN "False"
    ELSE IF Window(level, msg_type) = {} THEN "False"
    ELSE LET st == LastSentStatus(ex, f, msg_type)
         IN IF st = "none" THEN "True"
            ELSE IF st # "ok" THEN st
            ELSE IF \E w \in Window(level, msg_type) :
                        t - LastSentTime(f, msg_type) < w
                 THEN "False"
                 ELSE "True"

\* should_send_morning with the dedup by elapsed time, `now - last_sent < 24 h`,
\* instead of by calendar date
should_send_morning_Elapsed(test, t, ex, f) ==
    IF test THEN "True"
    ELSE IF ~(SendFrom <= HourOf(t) /\ HourOf(t) < MorningUntil) THEN "False"
    ELSE LET st == LastSentStatus(ex, f, "morning")
         IN IF st = "none" THEN "True"
            ELSE IF st # "ok" THEN st
            ELSE IF t - LastSentTime(f, "morning") < MinutesPerDay THEN "False"
            ELSE "True"

\* should_send_morning() evaluated at clock t on the file (ex, f)
should_send_morning(test, t, ex, f) ==
    IF test THEN "True"
    ELSE IF ~(SendFrom <= HourOf(t) /\ HourOf(t) < MorningUntil) THEN "False"
    ELSE LET st == LastSentStatus(ex, f, "morning")
         IN IF st = "none" THEN "True"
            ELSE IF st # "ok" THEN st
            ELSE IF DateOf(LastSentTime(f, "morning")) = DateOf(t) THEN "False"
            ELSE "True"

IsRaise(r) == r \in {"KeyError", "ValueError"}

-----------------------------------------------------------------------------
(* Processes *)

Pollers == {"p1", "p2"}
Compactors == {"c1", "c2"}
NoOne == "none"

pollerVars == <<pc, stage, tray, litter, ret, tnow, tdec, hdr, body, fd, parts>>
compactorVars == <<cpc, cutoff, fieldnames, idx, tmpExists, tmp, tmp_path, failing,
                   outcome, lock>>
fileVars == <<logExists, log>>

\* A run of main() or cleanup_log() is a short-lived process: while one is
\* running the clock advances by at most MaxRunStep minutes at a time.
MaxRunStep == 1
AllIdle == (\A p \in Pollers : pc[p] = "idle") /\ (\A c \in Compactors : cpc[c] = "idle")

\* The clock moves forward to a later instant of T.
Tick(T) ==
    /\ \E t \in T : /\ t > now
                    /\ AllIdle \/ t - now <= MaxRunStep
                    /\ now' = t
    /\ UNCHANGED <<fileVars, pollerVars, compactorVars, TEST_MODE, hist>>

-----------------------------------------------------------------------------
(* base.py: main() *)

\* The locals of a main() that has not read anything yet
NoDecision == [container |-> 0, litter |-> 0]

\* main() ends (normally or by an exception): the process exits
Exit(p) ==
    /\ pc' = [pc EXCEPT ![p] = "idle"]
    /\ stage' = [stage EXCEPT ![p] = "container"]
    /\ tray' = [tray EXCEPT ![p] = 0]
    /\ litter' = [litter EXCEPT ![p] = 0]
    /\ tnow' = [tnow EXCEPT ![p] = 0]
    /\ tdec' = [tdec EXCEPT ![p] = NoDecision]
    /\ hdr' = [hdr EXCEPT ![p] = FALSE]
    /\ parts' = [parts EXCEPT ![p] = {}]

\* A write of `lines` at offset 0 through a descriptor opened with "w": it
\* replaces the leading lines of whatever the file holds by then.
WriteAtStart(f, lines) ==
    IF Len(f) <= Len(lines) THEN lines
    ELSE lines \o SubSeq(f, Len(lines) + 1, Len(f))

\* _ensure_log_header(): the file exists and its first line (empty for an empty
\* file) is not the header
NeedsHeader(ex, f) == ex /\ (f = << >> \/ f[1] # HeaderLine)

\* main() starts: _ensure_log_header() up to the first_line test.
\* Starts only while the log has room for the rows of one more cycle.
MainStart(p, maxRows) ==
    /\ pc[p] = "idle"
    /\ Len(log) + 3 <= maxRows
    /\ pc' = [pc EXCEPT ![p] = IF NeedsHeader(logExists, log) THEN "eh_read" ELSE "refresh"]
    /\ hist' = [hist EXCEPT !.ehExists = logExists, !.ehPre = log]
    /\ UNCHANGED <<now, fileVars, stage, tray, litter, ret, tnow, tdec, hdr, body, fd,
                   parts, compactorVars, TEST_MODE>>

\* _ensure_log_header(): body = f.read()
EnsureRead(p) ==
    /\ pc[p] = "eh_read"
    /\ body' = [body EXCEPT ![p] = log]
    /\ pc' = [pc EXCEPT ![p] = "eh_trunc"]
    /\ UNCHANGED <<now, fileVars, stage, tray, litter, ret, tnow, tdec, hdr, fd, parts,
                   compactorVars, TEST_MODE, hist>>

\* _ensure_log_header(): open(LOG_FILE, "w") truncates the file in place
EnsureTrunc(p) ==
    /\ pc[p] = "eh_trunc"
    /\ logExists' = TRUE
    /\ log' = << >>
    /\ fd' = [fd EXCEPT ![p] = "open"]
    /\ pc' = [pc EXCEPT ![p] = "eh_write"]
    /\ UNCHANGED <<now, stage, tray, litter, ret, tnow, tdec, hdr, body, parts,
                   compactorVars, TEST_MODE, hist>>

\* _ensure_log_header() writing the header alone: the body it read is lost
EnsureWrite_HeaderOnly(p) ==
    /\ pc[p] = "eh_write"
    /\ log' = IF fd[p] = "open" THEN WriteAtStart(log, <<HeaderLine>>) ELSE log
    /\ fd' = [fd EXCEPT ![p] = "closed"]
    /\ body' = [body EXCEPT ![p] = << >>]
    /\ pc' = [pc EXCEPT ![p] = "refresh"]
    /\ UNCHANGED <<now, logExists, stage, tray, litter, ret, tnow, tdec, hdr, parts,
                   compactorVars, TEST_MODE, hist>>

\* _ensure_log_header(): f.write(header + "\n" + body), flushed at close.
\* A descriptor whose file was replaced meanwhile writes to the unlinked file.
EnsureWrite(p) ==
    /\ pc[p] = "eh_write"
    /\ log' = IF fd[p] = "open" THEN WriteAtStart(log, <<HeaderLine>> \o body[p]) ELSE log
    /\ fd' = [fd EXCEPT ![p] = "closed"]
    /\ body' = [body EXCEPT ![p] = << >>]
    /\ pc' = [pc EXCEPT ![p] = "refresh"]
    /\ UNCHANGED <<now, logExists, stage, tray, litter, ret, tnow, tdec, hdr, parts,
                   compactorVars, TEST_MODE, hist>>

\* robot.refresh(): <<traylevel, raw litter level>> drawn from readings
Refresh(p, readings) ==
    /\ pc[p] = "refresh"
    /\ \E rd \in readings :
          /\ tray' = [tray EXCEPT ![p] = rd[1]]
          /\ litter' = [litter EXCEPT ![p] = rd[2]]
    /\ stage' = [stage EXCEPT ![p] = "container"]
    /\ parts' = [parts EXCEPT ![p] = {}]
    /\ pc' = [pc EXCEPT ![p] = "decide"]
    /\ hist' = [hist EXCEPT !.ehExists = FALSE, !.ehPre = << >>, !.mcall = << >>]
    /\ UNCHANGED <<now, fileVars, ret, tnow, tdec, hdr, body, fd, compactorVars,
                   TEST_MODE>>

LevelOf(p) == IF stage[p] = "container" THEN tray[p] ELSE litter[p]
MessageOf(p) ==
    IF stage[p] = "container" THEN container_level(tray[p])
    ELSE litter_level_message(litter[p])

\* main(): `msg and should_send(level, kind)`; parts.append(msg) when it holds.
\* An exception of should_send ends main().
Decide(p) ==
    /\ pc[p] = "decide"
    /\ LET r == IF MessageOf(p) = "" THEN "NoMsg"
                ELSE should_send(LevelOf(p), stage[p], now, logExists, log)
       IN /\ ret' = [ret EXCEPT ![p] = r]
          /\ IF IsRaise(r)
             THEN Exit(p)
             ELSE /\ parts' = [parts EXCEPT ![p] = IF r = "True" THEN @ \cup {stage[p]} ELSE @]
                  /\ pc' = [pc EXCEPT ![p] = "lr_now"]
                  /\ tdec' = [tdec EXCEPT ![p][stage[p]] = now]
                  /\ UNCHANGED <<stage, tray, litter, tnow, hdr>>
    /\ UNCHANGED <<now, fileVars, body, fd, compactorVars, TEST_MODE, hist>>

\* log_reading(): now = datetime.now(CENTRAL); write_header = not os.path.exists(LOG_FILE)
LogNow(p) ==
    /\ pc[p] = "lr_now"
    /\ tnow' = [tnow EXCEPT ![p] = now]
    /\ hdr' = [hdr EXCEPT ![p] = ~logExists]
    /\ pc' = [pc EXCEPT ![p] = "lr_open"]
    /\ UNCHANGED <<now, fileVars, stage, tray, litter, ret, tdec, body, fd, parts,
                   compactorVars, TEST_MODE, hist>>

\* log_reading(): open(LOG_FILE, "a") creates the file when it is absent
LogOpen(p) ==
    /\ pc[p] = "lr_open"
    /\ logExists' = TRUE
    /\ fd' = [fd EXCEPT ![p] = "open"]
    /\ pc' = [pc EXCEPT ![p] = "lr_write"]
    /\ UNCHANGED <<now, log, stage, tray, litter, ret, tnow, tdec, hdr, body, parts,
                   compactorVars, TEST_MODE, hist>>

\* The row log_reading() writes
NewRow(p) ==
    Row(tnow[p], stage[p],
        IF stage[p] = "litter" THEN FormatLitter(litter[p]) ELSE FormatTray(tray[p]),
        ret[p] = "True")

\* What log_reading() appends: the header when write_header, then the row
Appended(p) == (IF hdr[p] THEN <<HeaderLine>> ELSE << >>) \o <<NewRow(p)>>

\* log_reading(): writeheader() / writerow(), flushed to the end of the file at
\* close; then main() goes on to the next reading
LogWrite(p) ==
    /\ pc[p] = "lr_write"
    /\ log' = IF fd[p] = "open" THEN log \o Appended(p) ELSE log
    /\ fd' = [fd EXCEPT ![p] = "closed"]
    /\ IF stage[p] = "container"
       THEN /\ stage' = [stage EXCEPT ![p] = "litter"]
            /\ pc' = [pc EXCEPT ![p] = "decide"]
            /\ UNCHANGED <<tray, litter, ret, tnow, tdec, hdr, parts>>
       ELSE IF stage[p] = "litter"
       THEN /\ pc' = [pc EXCEPT ![p] = "send"]
            /\ UNCHANGED <<stage, tray, litter, ret, tnow, tdec, hdr, parts>>
       ELSE /\ Exit(p)
            /\ UNCHANGED ret
    /\ hist' = [hist EXCEPT !.late =
                   IF fd[p] = "open" /\ \E c \in Compactors : cpc[c] = "replace"
                   THEN @ \o <<NewRow(p)>> ELSE @]
    /\ UNCHANGED <<now, logExists, body, compactorVars, TEST_MODE>>

\* send_text(): one session.post() per number of `phones`, in order.  outs[i] is
\* how the post to the i-th number ends: "ok" (success), "failed" (a response
\* without success, printed) or "raise" (session.post() or resp.json() raises,
\* which ends the loop and leaves send_text).
NPhones == 2
PostResults == {"ok", "failed", "raise"}
Delivered == {[i \in 1..NPhones |-> "ok"]}
AnyPosts == [1..NPhones -> PostResults]
Raised(outs) == \E i \in 1..NPhones : outs[i] = "raise"
Attempted(outs) ==
    IF Raised(outs)
    THEN CHOOSE i \in 1..NPhones : outs[i] = "raise" /\ \A j \in 1..(i - 1) : outs[j] # "raise"
    ELSE NPhones
Reached(outs) == \E i \in 1..Attempted(outs) : outs[i] = "ok"

\* The record of one send_text() call: the posts made, and whether its exception
\* ended main()
Notified(what, outs) ==
    [what |-> what, outs |-> outs, attempted |-> Attempted(outs), aborted |-> Raised(outs)]

\* main(): send_text(...) of the queued alerts, one combined text when both
\* fired; nothing is sent when `parts` is empty.  An exception of send_text
\* leaves main() through the finally block.
SendAlerts(p, posts) ==
    /\ pc[p] = "send"
    /\ IF parts[p] = {}
       THEN /\ pc' = [pc EXCEPT ![p] = "morning"]
            /\ UNCHANGED <<stage, tray, litter, tnow, tdec, hdr, parts, hist>>
       ELSE \E outs \in posts :
              /\ hist' = [hist EXCEPT
                     !.notify = <<Notified("alert", outs)>>,
                     !.alertAt = [k \in {"container", "litter"} |->
                                     IF k \in parts[p] /\ Reached(outs) THEN now ELSE @[k]],
                     !.alertGap = IF Reached(outs)
                                  THEN {[kind |-> k, gap |-> now - hist.alertAt[k],
                                         level |-> IF k = "container" THEN tray[p] ELSE litter[p]] :
                                           k \in {j \in parts[p] : hist.alertAt[j] >= 0}}
                                  ELSE @]
              /\ IF Raised(outs)
                 THEN Exit(p)
                 ELSE /\ pc' = [pc EXCEPT ![p] = "morning"]
                      /\ UNCHANGED <<stage, tray, litter, tnow, tdec, hdr, parts>>
    /\ UNCHANGED <<now, fileVars, ret, body, fd, compactorVars, TEST_MODE>>

\* main(): if should_send_morning()
DecideMorning(p) ==
    /\ pc[p] = "morning"
    /\ LET r == should_send_morning(TEST_MODE, now, logExists, log)
       IN /\ ret' = [ret EXCEPT ![p] = r]
          /\ IF r = "True"
             THEN /\ pc' = [pc EXCEPT ![p] = "send_m"]
                  /\ stage' = [stage EXCEPT ![p] = "morning"]
                  /\ UNCHANGED <<tray, litter, tnow, tdec, hdr, parts>>
             ELSE Exit(p)
          /\ hist' = [hist EXCEPT
                 !.mcall = <<[t |-> now, r |-> r, first |-> DateOf(now) \notin hist.mwin]>>,
                 !.mwin = IF SendFrom <= HourOf(now) /\ HourOf(now) < MorningUntil
                          THEN @ \cup {DateOf(now)} ELSE @]
    /\ UNCHANGED <<now, fileVars, body, fd, compactorVars, TEST_MODE>>

\* main(): send_text(session, morning_digest(...)), then log_reading(..., "morning").
\* An exception of send_text leaves main() before the morning row is logged.
SendMorning(p, posts) ==
    /\ pc[p] = "send_m"
    /\ \E outs \in posts :
          /\ hist' = [hist EXCEPT
                 !.notify = <<Notified("morning", outs)>>,
                 !.digestDates = IF Reached(outs) THEN @ \cup {DateOf(now)} ELSE @,
                 !.digestDup = IF Reached(outs) /\ DateOf(now) \in hist.digestDates
                               THEN @ \cup {DateOf(now)} ELSE @]
          /\ IF Raised(outs)
             THEN Exit(p)
             ELSE /\ pc' = [pc EXCEPT ![p] = "lr_now"]
                  /\ UNCHANGED <<stage, tray, litter, tnow, tdec, hdr, parts>>
    /\ UNCHANGED <<now, fileVars, ret, body, fd, compactorVars, TEST_MODE>>

\* should_send(level, msg_type) called on its own, with level drawn from
\* levels[msg_type]; the call and its result are recorded
ShouldSendCall(levels) ==
    /\ \E msg_type \in {"container", "litter"} : \E level \in levels[msg_type] :
          hist' = [hist EXCEPT !.call =
                      <<[type |-> msg_type, level |-> level, t |-> now,
                         r |-> should_send(level, msg_type, now, logExists, log)]>>]
    /\ UNCHANGED <<now, fileVars, pollerVars, compactorVars, TEST_MODE>>

-----------------------------------------------------------------------------
(* cleanup.py: cleanup_log() *)

\* cleanup_log() is called: return when the log is absent, else compute cutoff
CleanupStart(c) ==
    /\ cpc[c] = "idle"
    /\ failing' = [failing EXCEPT ![c] = FALSE]
    /\ tmp_path' = [tmp_path EXCEPT ![c] = FALSE]
    /\ IF ~logExists
       THEN /\ outcome' = [outcome EXCEPT ![c] = "returned"]
            /\ UNCHANGED <<cpc, cutoff>>
       ELSE /\ cutoff' = [cutoff EXCEPT ![c] = now - Retention]
            /\ cpc' = [cpc EXCEPT ![c] = "lock"]
            /\ outcome' = [outcome EXCEPT ![c] = "running"]
    /\ hist' = [hist EXCEPT !.cstart = now, !.failedAt = ""]
    /\ UNCHANGED <<now, fileVars, pollerVars, fieldnames, idx, tmpExists, tmp,
                   lock, TEST_MODE>>

\* flock that does not wait for the holder (the lock taken on a file of its own)
CleanupLock_NoWait(c) ==
    /\ cpc[c] = "lock"
    /\ lock' = c
    /\ cpc' = [cpc EXCEPT ![c] = "open"]
    /\ hist' = [hist EXCEPT !.pre = log, !.seen = << >>, !.replaced = << >>,
                            !.late = << >>]
    /\ UNCHANGED <<now, fileVars, pollerVars, cutoff, fieldnames, idx, tmpExists, tmp,
                   tmp_path, failing, outcome, TEST_MODE>>

\* fcntl.flock(lock_fd, fcntl.LOCK_EX): blocks while another process holds it
CleanupLock(c) ==
    /\ cpc[c] = "lock"
    /\ lock = NoOne
    /\ lock' = c
    /\ cpc' = [cpc EXCEPT ![c] = "open"]
    /\ hist' = [hist EXCEPT !.pre = log, !.seen = << >>, !.replaced = << >>,
                            !.late = << >>]
    /\ UNCHANGED <<now, fileVars, pollerVars, cutoff, fieldnames, idx, tmpExists, tmp,
                   tmp_path, failing, outcome, TEST_MODE>>

\* open(LOG_FILE) and NamedTemporaryFile(...); tmp_path = tmp.name
CleanupOpen(c) ==
    /\ cpc[c] = "open"
    /\ tmpExists' = [tmpExists EXCEPT ![c] = TRUE]
    /\ tmp' = [tmp EXCEPT ![c] = << >>]
    /\ tmp_path' = [tmp_path EXCEPT ![c] = TRUE]
    /\ idx' = [idx EXCEPT ![c] = 0]
    /\ cpc' = [cpc EXCEPT ![c] = "header"]
    /\ UNCHANGED <<now, fileVars, pollerVars, cutoff, fieldnames, failing, outcome, lock,
                   TEST_MODE, hist>>

\* The header written straight into LOG_FILE (opened "w") instead of the temp file
CleanupHeader_InPlace(c) ==
    /\ cpc[c] = "header"
    /\ log # << >>
    /\ fieldnames' = [fieldnames EXCEPT ![c] = log[1]]
    /\ log' = <<log[1]>>
    /\ tmp' = [tmp EXCEPT ![c] = <<log[1]>>]
    /\ idx' = [idx EXCEPT ![c] = 1]
    /\ cpc' = [cpc EXCEPT ![c] = "rows"]
    /\ UNCHANGED <<now, logExists, pollerVars, cutoff, tmpExists, tmp_path, failing, outcome,
                   lock, TEST_MODE, hist>>

\* reader.fieldnames reads the first line (None on an empty file, and then
\* writeheader() raises TypeError); writer.writeheader() writes it to the temp file
CleanupHeader(c) ==
    /\ cpc[c] = "header"
    /\ IF log = << >>
       THEN /\ failing' = [failing EXCEPT ![c] = TRUE]
            /\ cpc' = [cpc EXCEPT ![c] = "finally"]
            /\ hist' = [hist EXCEPT !.failedAt = "TypeError"]
            /\ UNCHANGED <<fieldnames, tmp, idx>>
       ELSE /\ fieldnames' = [fieldnames EXCEPT ![c] = log[1]]
            /\ tmp' = [tmp EXCEPT ![c] = <<log[1]>>]
            /\ idx' = [idx EXCEPT ![c] = 1]
            /\ cpc' = [cpc EXCEPT ![c] = "rows"]
            /\ UNCHANGED <<failing, hist>>
    /\ UNCHANGED <<now, fileVars, pollerVars, cutoff, tmpExists, tmp_path, outcome, lock,
                   TEST_MODE>>

\* ts >= cutoff
Keep(row, cut) == fromisoformat(row.timestamp) >= cut

\* One turn of `for row in reader`: KeyError when the keys lack "timestamp",
\* ValueError when the cell is not ISO text; the row is written when ts >= cutoff.
\* At the end of the file the with-block closes both files.
CleanupRow(c) ==
    /\ cpc[c] = "rows"
    /\ IF idx[c] >= Len(log)
       THEN /\ cpc' = [cpc EXCEPT ![c] = "replace"]
            /\ UNCHANGED <<idx, tmp, failing, hist>>
       ELSE LET row == log[idx[c] + 1]
            IN IF fieldnames[c] # HeaderLine \/ ~IsIso(row.timestamp)
               THEN /\ failing' = [failing EXCEPT ![c] = TRUE]
                    /\ cpc' = [cpc EXCEPT ![c] = "finally"]
                    /\ hist' = [hist EXCEPT !.failedAt =
                                   IF fieldnames[c] # HeaderLine THEN "KeyError" ELSE "ValueError"]
                    /\ UNCHANGED <<idx, tmp>>
               ELSE /\ idx' = [idx EXCEPT ![c] = @ + 1]
                    /\ tmp' = [tmp EXCEPT ![c] = IF Keep(row, cutoff[c]) THEN Append(@, row) ELSE @]
                    /\ UNCHANGED <<cpc, failing, hist>>
    /\ UNCHANGED <<now, fileVars, pollerVars, cutoff, fieldnames, tmpExists, tmp_path,
                   outcome, lock, TEST_MODE>>

\* A replace that carries over the lines appended to the log since it was read
CleanupReplace_Merge(c) ==
    /\ cpc[c] = "replace"
    /\ log' = tmp[c] \o SubSeq(log, idx[c] + 1, Len(log))
    /\ tmpExists' = [tmpExists EXCEPT ![c] = FALSE]
    /\ tmp' = [tmp EXCEPT ![c] = << >>]
    /\ tmp_path' = [tmp_path EXCEPT ![c] = FALSE]
    /\ fd' = [p \in Pollers |-> IF fd[p] = "open" THEN "stale" ELSE fd[p]]
    /\ cpc' = [cpc EXCEPT ![c] = "finally"]
    /\ hist' = [hist EXCEPT !.replaced =
                   <<[by |-> c, before |-> log,
                      after |-> tmp[c] \o SubSeq(log, idx[c] + 1, Len(log)), t |-> now]>>]
    /\ UNCHANGED <<now, logExists, pc, stage, tray, litter, ret, tnow, tdec, hdr, body,
                   parts, cutoff, fieldnames, idx, failing, outcome, lock, TEST_MODE>>

\* os.replace(tmp_path, LOG_FILE); tmp_path = None.  Descriptors open on the
\* old file keep pointing at it, now unlinked.
CleanupReplace(c) ==
    /\ cpc[c] = "replace"
    /\ log' = tmp[c]
    /\ tmpExists' = [tmpExists EXCEPT ![c] = FALSE]
    /\ tmp' = [tmp EXCEPT ![c] = << >>]
    /\ tmp_path' = [tmp_path EXCEPT ![c] = FALSE]
    /\ fd' = [p \in Pollers |-> IF fd[p] = "open" THEN "stale" ELSE fd[p]]
    /\ cpc' = [cpc EXCEPT ![c] = "finally"]
    /\ hist' = [hist EXCEPT !.replaced = <<[by |-> c, before |-> log, after |-> tmp[c], t |-> now]>>]
    /\ UNCHANGED <<now, logExists, pc, stage, tray, litter, ret, tnow, tdec, hdr, body,
                   parts, cutoff, fieldnames, idx, failing, outcome, lock, TEST_MODE>>

\* An OSError from reading the log, writing the temp file, or os.replace()
CleanupIOError(c) ==
    /\ cpc[c] \in {"open", "header", "rows", "replace"}
    /\ failing' = [failing EXCEPT ![c] = TRUE]
    /\ cpc' = [cpc EXCEPT ![c] = "finally"]
    /\ hist' = [hist EXCEPT !.failedAt = cpc[c]]
    /\ UNCHANGED <<now, fileVars, pollerVars, cutoff, fieldnames, idx, tmpExists, tmp,
                   tmp_path, outcome, lock, TEST_MODE>>

\* finally without LOCK_UN, and the lock file kept open
CleanupFinally_KeepLock(c) ==
    /\ cpc[c] = "finally"
    /\ IF tmp_path[c] /\ tmpExists[c]
       THEN /\ tmpExists' = [tmpExists EXCEPT ![c] = FALSE]
            /\ tmp' = [tmp EXCEPT ![c] = << >>]
       ELSE UNCHANGED <<tmpExists, tmp>>
    /\ cpc' = [cpc EXCEPT ![c] = "idle"]
    /\ outcome' = [outcome EXCEPT ![c] = IF failing[c] THEN "raised" ELSE "returned"]
    /\ UNCHANGED <<now, fileVars, pollerVars, cutoff, fieldnames, idx, tmp_path, failing,
                   lock, TEST_MODE, hist>>

\* finally without the unlink: the temp file of a failed run is left behind
CleanupFinally_KeepTemp(c) ==
    /\ cpc[c] = "finally"
    /\ lock' = NoOne
    /\ cpc' = [cpc EXCEPT ![c] = "idle"]
    /\ outcome' = [outcome EXCEPT ![c] = IF failing[c] THEN "raised" ELSE "returned"]
    /\ UNCHANGED <<now, fileVars, pollerVars, cutoff, fieldnames, idx, tmpExists, tmp,
                   tmp_path, failing, TEST_MODE, hist>>

\* finally: unlink the temp file when tmp_path is set and it exists; LOCK_UN.
\* cleanup_log() then returns, or the exception goes on to its caller
\* (failing stays set as the outcome of the call).
CleanupFinally(c) ==
    /\ cpc[c] = "finally"
    /\ IF tmp_path[c] /\ tmpExists[c]
       THEN /\ tmpExists' = [tmpExists EXCEPT ![c] = FALSE]
            /\ tmp' = [tmp EXCEPT ![c] = << >>]
       ELSE UNCHANGED <<tmpExists, tmp>>
    /\ lock' = NoOne
    /\ cpc' = [cpc EXCEPT ![c] = "idle"]
    /\ outcome' = [outcome EXCEPT ![c] = IF failing[c] THEN "raised" ELSE "returned"]
    /\ UNCHANGED <<now, fileVars, pollerVars, cutoff, fieldnames, idx, tmp_path, failing,
                   TEST_MODE, hist>>

\* A reader of the log (the open-and-read of should_send, base.py 141-146)
\* while a compaction holds the lock: what it sees at LOG_FILE
ReadLog ==
    /\ lock # NoOne
    /\ hist' = [hist EXCEPT !.seen = <<log>>]
    /\ UNCHANGED <<now, fileVars, pollerVars, compactorVars, TEST_MODE>>

-----------------------------------------------------------------------------
(* Specifications *)

\* Instants: day d, hh:mm
At(d, hh, mm) == d * MinutesPerDay + hh * MinutesPerHour + mm

HistInit ==
    [pre |-> << >>, seen |-> << >>, mwin |-> {}, mcall |-> << >>,
     ehExists |-> FALSE, ehPre |-> << >>, call |-> << >>, cstart |-> 0, failedAt |-> "",
     replaced |-> << >>, late |-> << >>, notify |-> << >>,
     alertAt |-> [container |-> -1, litter |-> -1], alertGap |-> {},
     digestDates |-> {}, digestDup |-> {}]

InitWith(t0, files, test) ==
    /\ now = t0
    /\ \E f \in files : logExists = f.ex /\ log = f.lines
    /\ TEST_MODE = test
    /\ pc = [p \in Pollers |-> "idle"]
    /\ stage = [p \in Pollers |-> "container"]
    /\ tray = [p \in Pollers |-> 0]
    /\ litter = [p \in Pollers |-> 0]
    /\ ret = [p \in Pollers |-> ""]
    /\ tnow = [p \in Pollers |-> 0]
    /\ tdec = [p \in Pollers |-> NoDecision]
    /\ hdr = [p \in Pollers |-> FALSE]
    /\ body = [p \in Pollers |-> << >>]
    /\ fd = [p \in Pollers |-> "closed"]
    /\ parts = [p \in Pollers |-> {}]
    /\ cpc = [c \in Compactors |-> "idle"]
    /\ cutoff = [c \in Compactors |-> 0]
    /\ fieldnames = [c \in Compactors |-> HeaderLine]
    /\ idx = [c \in Compactors |-> 0]
    /\ tmpExists = [c \in Compactors |-> FALSE]
    /\ tmp = [c \in Compactors |-> << >>]
    /\ tmp_path = [c \in Compactors |-> FALSE]
    /\ failing = [c \in Compactors |-> FALSE]
    /\ outcome = [c \in Compactors |-> "none"]
    /\ lock = NoOne
    /\ hist = HistInit

Absent == [ex |-> FALSE, lines |-> << >>]
File(lines) == [ex |-> TRUE, lines |-> lines]

\* One cycle of main() by poller p
Poller(p, maxRows, readings, posts) ==
    \/ MainStart(p, maxRows)
    \/ EnsureRead(p)
    \/ EnsureTrunc(p)
    \/ EnsureWrite(p)
    \/ Refresh(p, readings)
    \/ Decide(p)
    \/ LogNow(p)
    \/ LogOpen(p)
    \/ LogWrite(p)
    \/ SendAlerts(p, posts)
    \/ DecideMorning(p)
    \/ SendMorning(p, posts)

\* One call of cleanup_log() by compactor c
Compactor(c) ==
    \/ CleanupStart(c)
    \/ CleanupLock(c)
    \/ CleanupOpen(c)
    \/ CleanupHeader(c)
    \/ CleanupRow(c)
    \/ CleanupReplace(c)
    \/ CleanupIOError(c)
    \/ CleanupFinally(c)

(* SpecPoll: one poller running main() cycle after cycle, alone *)

MaxRowsPoll == 7

PollTimes ==
    {At(1, 7, 59), At(1, 8, 0), At(1, 8, 59), At(1, 9, 0), At(1, 11, 59), At(1, 12, 0),
     At(1, 22, 59), At(1, 23, 0)}
PollReadings == {69, 70, 90} \X {90, 270, 271}

LegacyRow == Row(At(0, 22, 0), "container", FormatTray(90), TRUE)
PollFiles ==
    {Absent, File(<< >>), File(<<HeaderLine>>), File(<<LegacyRow>>),
     File(<<HeaderLine, LegacyRow>>)}

InitPoll == InitWith(At(1, 7, 59), PollFiles, FALSE)
NextPoll ==
    \/ Tick(PollTimes)
    \/ Poller("p1", MaxRowsPoll, PollReadings, Delivered)
SpecPoll == InitPoll /\ [][NextPoll]_vars

(* SpecSend: should_send() applied to drawn logs, clocks and levels *)

MaxSendRows == 2

SeqsUpTo(S, n) == UNION {[1..k -> S] : k \in 0..n}

SendStamps == {isoformat(At(1, 8, 0)), isoformat(At(1, 11, 0)), << >>}
SendRowPool ==
    [timestamp : SendStamps, type : {"container", "litter"}, level : {FormatTray(90)},
     sent : {"True", "False"}]
SendFiles ==
    {Absent} \cup {File(rows) : rows \in SeqsUpTo(SendRowPool, MaxSendRows)}
             \cup {File(<<HeaderLine>> \o rows) : rows \in SeqsUpTo(SendRowPool, MaxSendRows)}
SendTimes == {At(1, h, 0) : h \in 11..23} \cup {At(2, h, 30) : h \in 0..10}
SendLevels == [container |-> {0, 69, 70, 89, 90, 100}, litter |-> {0, 90, 91, 270, 271, 450}]

InitSend == \E t \in SendTimes : \E test \in BOOLEAN : InitWith(t, SendFiles, test)
NextSend == ShouldSendCall(SendLevels)
SpecSend == InitSend /\ [][NextSend]_vars

(* SpecCompact: cleanup_log() called again and again with no writer, and a
   reader of the log *)

CompactStart == At(3, 8, 0)
CompactTimes == {CompactStart, CompactStart + 1}
Old72 == Row(CompactStart - 72 * MinutesPerHour, "container", FormatTray(90), TRUE)
Old48 == Row(CompactStart - Retention, "litter", FormatLitter(270), TRUE)
Old40 == Row(CompactStart - 40 * MinutesPerHour, "morning", FormatTray(69), TRUE)
Old1 == Row(CompactStart - MinutesPerHour, "container", FormatTray(69), FALSE)
BadRow == [timestamp |-> << >>, type |-> "litter", level |-> FormatLitter(90), sent |-> "True"]

\* The sub-sequences of s, order kept
RECURSIVE SubSeqs(_)
SubSeqs(s) ==
    IF s = << >> THEN {<< >>}
    ELSE LET rest == SubSeqs(Tail(s))
         IN rest \cup {<<Head(s)>> \o r : r \in rest}

CompactFiles ==
    {Absent}
      \cup {File(rows) : rows \in SubSeqs(<<Old72, Old48, Old40, Old1>>)}
      \cup {File(<<HeaderLine>> \o rows) : rows \in SubSeqs(<<Old72, Old48, Old40, Old1>>)}
      \cup {File(<<HeaderLine, Old72, BadRow, Old1>>), File(<<HeaderLine, Old40, BadRow>>)}

InitCompact == InitWith(CompactStart, CompactFiles, FALSE)
NextCompact ==
    \/ Tick(CompactTimes)
    \/ Compactor("c1")
    \/ ReadLog
SpecCompact == InitCompact /\ [][NextCompact]_vars

(* Spec: a poller and a compactor running side by side on the same log *)

MaxRows == 5

SpecTimes == {CompactStart, CompactStart + 1}
SpecReadings == {<<90, 271>>}
SpecFiles ==
    {Absent, File(<<HeaderLine>>), File(<<HeaderLine, Old72, Old1>>), File(<<Old1>>)}

Init == InitWith(CompactStart, SpecFiles, FALSE)
Next ==
    \/ Tick(SpecTimes)
    \/ Poller("p1", MaxRows, SpecReadings, Delivered)
    \/ Compactor("c1")
Spec == Init /\ [][Next]_vars

(* SpecMorning: main() cycles over two days with readings that raise no alert *)

MaxRowsMorning == 10

MorningTimes ==
    {At(1, 7, 59), At(1, 8, 0), At(1, 8, 59), At(1, 9, 0), At(2, 7, 59), At(2, 8, 0),
     At(2, 8, 59)}
MorningReadings == {<<69, 271>>}

InitMorning == InitWith(At(1, 7, 59), {Absent, File(<<LegacyRow>>), File(<<HeaderLine, LegacyRow>>)}, FALSE)
NextMorning ==
    \/ Tick(MorningTimes)
    \/ Poller("p1", MaxRowsMorning, MorningReadings, Delivered)
SpecMorning == InitMorning /\ [][NextMorning]_vars

(* SpecTwo: two main() processes whose cycles may overlap, starting with no log *)

MaxRowsTwo == 3

TwoTimes == {At(1, 8, 0), At(1, 8, 1)}
TwoReadings == {<<90, 271>>}

InitTwo == InitWith(At(1, 8, 0), {Absent}, FALSE)
\* A process that runs main() once: ret[p] is "" until its first decision
PollerOnce(p, maxRows, readings, posts) ==
    \/ ret[p] = "" /\ MainStart(p, maxRows)
    \/ EnsureRead(p)
    \/ EnsureTrunc(p)
    \/ EnsureWrite(p)
    \/ Refresh(p, readings)
    \/ Decide(p)
    \/ LogNow(p)
    \/ LogOpen(p)
    \/ LogWrite(p)
    \/ SendAlerts(p, posts)
    \/ DecideMorning(p)
    \/ SendMorning(p, posts)

NextTwo ==
    \/ Tick(TwoTimes)
    \/ PollerOnce("p1", MaxRowsTwo, TwoReadings, Delivered)
    \/ PollerOnce("p2", MaxRowsTwo, TwoReadings, Delivered)
SpecTwo == InitTwo /\ [][NextTwo]_vars

(* SpecNotify: main() cycles in the digest hour with alerts due and a
   notification service that may refuse or fail any post *)

MaxRowsNotify == 7

NotifyTimes == {At(1, 8, 0), At(1, 8, 1)}
NotifyReadings == {<<90, 271>>, <<69, 90>>}

InitNotify == InitWith(At(1, 8, 0), {Absent, File(<<HeaderLine>>), File(<<LegacyRow>>)}, FALSE)
NextNotify ==
    \/ Tick(NotifyTimes)
    \/ Poller("p1", MaxRowsNotify, NotifyReadings, AnyPosts)
SpecNotify == InitNotify /\ [][NextNotify]_vars

(* SpecLock: two cleanup.py processes calling cleanup_log() side by side *)

LockFiles ==
    {Absent, File(<< >>), File(<<HeaderLine, Old72, Old1>>), File(<<HeaderLine, Old40, BadRow>>)}

InitLock == InitWith(CompactStart, LockFiles, FALSE)
NextLock ==
    \/ Tick(CompactTimes)
    \/ Compactor("c1")
    \/ Compactor("c2")
SpecLock == InitLock /\ [][NextLock]_vars

(* SpecLockFair: two cleanup.py processes, each calling cleanup_log() once
   (cleanup.py:99-100), every process that can take a step eventually taking one *)

\* A process that calls cleanup_log() once: outcome[c] is "none" until the call
CompactorOnce(c) ==
    \/ outcome[c] = "none" /\ CleanupStart(c)
    \/ CleanupLock(c)
    \/ CleanupOpen(c)
    \/ CleanupHeader(c)
    \/ CleanupRow(c)
    \/ CleanupReplace(c)
    \/ CleanupIOError(c)
    \/ CleanupFinally(c)

NextLockFair ==
    \/ Tick(CompactTimes)
    \/ CompactorOnce("c1")
    \/ CompactorOnce("c2")
SpecLockFair ==
    /\ InitLock
    /\ [][NextLockFair]_vars
    /\ WF_vars(CompactorOnce("c1"))
    /\ WF_vars(CompactorOnce("c2"))

-----------------------------------------------------------------------------
(* Properties *)

\* The severity classes of the specification (section 4.2)
Severity(level, kind) ==
    IF kind = "container"
    THEN IF level >= 90 THEN "Urgent" ELSE IF level >= 70 THEN "Advisory" ELSE "None"
    ELSE IF level * 10 <= 2 * 450 THEN "Urgent"
         ELSE IF level * 10 <= 6 * 450 THEN "Advisory" ELSE "None"
WindowFor(sev) == IF sev = "Urgent" THEN 60 ELSE 240
InSendingHours(t) == HourOf(t) \in 8..22

\* Positions of the sent=true entries of a kind in the log
SentAt(f, kind) == {i \in 1..Len(f) : f[i].sent = "True" /\ f[i].type = kind}
MaxOf(S) == CHOOSE i \in S : \A j \in S : j <= i
LastSentStamp(f, kind) == f[MaxOf(SentAt(f, kind))].timestamp[1]

\* A poller has just evaluated should_send for its current reading
Decided(p) == pc[p] = "lr_now" /\ stage[p] \in {"container", "litter"} /\ ret[p] # "NoMsg"
DecidedAt(p) == tdec[p][stage[p]]

\* C1: inside sending hours and at Urgent or Advisory level, should_send returns
\* true exactly when the log holds no sent=true entry of the kind, or the last
\* such entry is at least the window of the current level old (1 h Urgent, 4 h
\* Advisory).
C1_ThrottleWindow ==
    \A p \in Pollers :
        (/\ Decided(p)
         /\ Severity(LevelOf(p), stage[p]) # "None"
         /\ InSendingHours(DecidedAt(p)))
        => (ret[p] = "True"
              <=> \/ SentAt(log, stage[p]) = {}
                  \/ DecidedAt(p) - LastSentStamp(log, stage[p])
                        >= WindowFor(Severity(LevelOf(p), stage[p])))

\* C1 witness: an Advisory reading decided exactly one Advisory window after the
\* last alert of its kind, which was sent, and the alert is sent
C1_Witness ==
    \E p \in Pollers :
        /\ Decided(p)
        /\ Severity(LevelOf(p), stage[p]) = "Advisory"
        /\ SentAt(log, stage[p]) # {}
        /\ DecidedAt(p) - LastSentStamp(log, stage[p]) = 240
        /\ ret[p] = "True"

\* C2: should_send returns false for every level classified None, whatever the
\* log and the time of day.
C2_NoneNeverSends ==
    \A i \in 1..Len(hist.call) :
        Severity(hist.call[i].level, hist.call[i].type) = "None"
            => hist.call[i].r = "False"

\* C2 witness: a None-level container call inside sending hours on a log that
\* holds no sent=true container entry
C2_Witness ==
    /\ hist.call # << >>
    /\ hist.call[1].type = "container"
    /\ hist.call[1].level = 69
    /\ InSendingHours(hist.call[1].t)
    /\ logExists /\ log # << >> /\ SentAt(log, "container") = {}
    /\ hist.call[1].r = "False"

\* The row a poller appended last is the last line of the log
LastRowIs(kind, sent) ==
    /\ log # << >>
    /\ Last(log).type = kind
    /\ Last(log).sent = sent

\* C3: a reading evaluated when the local hour is outside [8, 23) is never queued
\* for dispatch, whatever its severity and the log, and it is still appended to
\* the log with sent=False; with no throttling entry the gate lets an alert
\* through exactly in the hours 8 to 22.
C3_QuietHours ==
    \A p \in Pollers :
        /\ \A k \in parts[p] : InSendingHours(tdec[p][k])
        /\ (Decided(p) /\ Severity(LevelOf(p), stage[p]) # "None"
                /\ SentAt(log, stage[p]) = {})
              => (ret[p] = "True" <=> InSendingHours(DecidedAt(p)))
        /\ (pc[p] = "decide" /\ stage[p] = "litter" /\ ~InSendingHours(tdec[p]["container"]))
              => LastRowIs("container", "False")
        /\ (pc[p] = "send" /\ ~InSendingHours(tdec[p]["litter"]))
              => LastRowIs("litter", "False")

\* C3 witness: a cycle with both readings Urgent, both evaluated at 23:00 on a
\* log without alerts, reaches the dispatch step with nothing queued and both
\* rows logged unsent
C3_Witness ==
    \E p \in Pollers :
        /\ pc[p] = "send"
        /\ tray[p] = 90 /\ litter[p] = 90
        /\ tdec[p]["container"] = At(1, 23, 0) /\ tdec[p]["litter"] = At(1, 23, 0)
        /\ parts[p] = {}
        /\ Len(log) >= 3
        /\ log[Len(log) - 1].type = "container" /\ log[Len(log) - 1].sent = "False"
        /\ LastRowIs("litter", "False")
        /\ SentAt(log, "container") = {} /\ SentAt(log, "litter") = {}

\* C4: with the bypass flag off and the morning entry appended after every
\* digest, should_send_morning returns true exactly on the first call of each
\* local calendar day that falls in [08:00, 09:00).
C4_DigestOncePerDay ==
    \A i \in 1..Len(hist.mcall) :
        hist.mcall[i].r = "True"
            <=> (HourOf(hist.mcall[i].t) = 8 /\ hist.mcall[i].first)

\* C4 witness: on day 2 at 08:00 the digest is due again although day 1's digest
\* is in the log
C4_Witness ==
    /\ hist.mcall # << >>
    /\ hist.mcall[1].t = At(2, 8, 0)
    /\ hist.mcall[1].r = "True"
    /\ hist.mwin = {1, 2}
    /\ \E i \in SentAt(log, "morning") : DateOf(log[i].timestamp[1]) = 1

\* A later call on a day whose digest went out returns false
C4_WitnessRepeat ==
    /\ hist.mcall # << >>
    /\ hist.mcall[1].t = At(1, 8, 59)
    /\ hist.mcall[1].r = "False"
    /\ ~hist.mcall[1].first

\* The entries of a log file: its lines, less the canonical header when it leads
EntriesOf(f) == IF f # << >> /\ f[1] = HeaderLine THEN Tail(f) ELSE f
NotOlderThan(es, cut) == SelectSeq(es, LAMBDA e : e.timestamp[1] >= cut)

\* cleanup_log() has replaced the log and not failed
Compacted(c) == cpc[c] = "finally" /\ ~failing[c]

\* C5: after cleanup_log() ran to completion with no concurrent writer, the log is
\* the canonical header followed by exactly the entries of the previous log
\* whose timestamp is at or after (time of the call - 48 h), in order, unchanged.
C5_CompactExact ==
    \A c \in Compactors :
        Compacted(c)
            => log = <<HeaderLine>> \o NotOlderThan(EntriesOf(hist.pre), hist.cstart - 2880)

\* What holds of the code: the same, on a log whose first line is the header
C5_CompactExactUnderHeader ==
    \A c \in Compactors :
        (Compacted(c) /\ hist.pre[1] = HeaderLine)
            => log = <<HeaderLine>> \o NotOlderThan(EntriesOf(hist.pre), hist.cstart - 2880)

\* The specification's example: rows at now-72h, now-40h, now-1h, plus the
\* boundary row at now-48h, which is kept
C5_HeaderedReached ==
    \E c \in Compactors :
        /\ Compacted(c)
        /\ hist.pre = <<HeaderLine, Old72, Old48, Old40, Old1>>
        /\ hist.cstart = CompactStart
        /\ log = <<HeaderLine, Old48, Old40, Old1>>

\* The complete file a compaction of `pre` with cutoff `cut` leaves
PostOf(pre, cut) == <<pre[1]>> \o NotOlderThan(Tail(pre), cut)
PreOrPost(f, c) ==
    \/ f = hist.pre
    \/ /\ hist.pre # << >>
       /\ \A i \in 2..Len(hist.pre) : IsIso(hist.pre[i].timestamp)
       /\ f = PostOf(hist.pre, cutoff[c])

\* C6: while a compaction runs beside a reader, the content at the log path, and
\* so whatever the reader reads, is the complete file from before the compaction
\* or the complete file after it.
C6_ReaderSeesWholeFile ==
    \A c \in Compactors :
        cpc[c] \in {"open", "header", "rows", "replace", "finally"}
            => /\ PreOrPost(log, c)
               /\ \A i \in 1..Len(hist.seen) : PreOrPost(hist.seen[i], c)

\* C6 witness: the reader read the log after the replace and saw the compacted
\* file, shorter than the file before
C6_Witness ==
    \E c \in Compactors :
        /\ cpc[c] = "finally" /\ ~failing[c]
        /\ hist.seen = <<log>>
        /\ hist.pre = <<HeaderLine, Old72, Old48, Old40, Old1>>
        /\ Len(log) < Len(hist.pre)

\* The reader read the log while the temp file was half written and saw the
\* old file
C6_WitnessBefore ==
    \E c \in Compactors :
        /\ cpc[c] = "rows" /\ idx[c] = 3 /\ Len(tmp[c]) = 2
        /\ hist.seen = <<hist.pre>>
        /\ Len(hist.pre) = 5

\* C7: when cleanup_log() fails before the replace has succeeded, the log keeps
\* its prior content, the temp file is gone, the lock is released and the
\* exception reaches the caller.
C7_FailureLeavesLog ==
    \A c \in Compactors :
        (cpc[c] = "idle" /\ failing[c])
            => /\ log = hist.pre
               /\ ~tmpExists[c]
               /\ lock = NoOne
               /\ outcome[c] = "raised"

\* C7 witness: os.replace() failed after the temp file was written in full
C7_Witness ==
    \E c \in Compactors :
        /\ cpc[c] = "idle" /\ failing[c]
        /\ hist.failedAt = "replace"
        /\ Len(hist.pre) = 5
        /\ outcome[c] = "raised"

\* An unparsable timestamp in a row stopped the compaction
C7_WitnessBadRow ==
    \E c \in Compactors :
        /\ cpc[c] = "idle" /\ failing[c]
        /\ hist.failedAt = "ValueError"
        /\ log = <<HeaderLine, Old72, BadRow, Old1>>

\* The lines of `before` that are missing from `after`, a sub-sequence of it
RECURSIVE Dropped(_, _)
Dropped(before, after) ==
    IF before = << >> THEN << >>
    ELSE IF after # << >> /\ Head(before) = Head(after)
         THEN Dropped(Tail(before), Tail(after))
         ELSE <<Head(before)>> \o Dropped(Tail(before), after)

Count(r, f) == Cardinality({i \in 1..Len(f) : f[i] = r})

\* C8: whatever the interleaving of appends, header repair and compactions, a
\* compaction removes from the log only entries older than the retention window
\* (48 h before the time of the removal); no younger entry disappears.
C8_OnlyOldEntriesRemoved ==
    \A i \in 1..Len(hist.replaced) :
        LET R == hist.replaced[i]
            gone == Dropped(R.before, R.after)
        IN \A k \in 1..Len(gone) :
              gone[k] # HeaderLine
                 => /\ IsIso(gone[k].timestamp)
                    /\ gone[k].timestamp[1] < R.t - 2880

\* C9: a row whose append completed after the compactor reached the end of the
\* log and before its os.replace(), and which is in the log when the replace
\* fires, is absent from the log the replace installs, and cleanup_log() still
\* returns normally.  (hist.late holds the rows appended in that interval; the
\* rows of the log equal to one of them are then all of that interval.)
C9_LateAppendLost ==
    /\ \A i \in 1..Len(hist.replaced) :
          \A k \in 1..Len(hist.late) :
             (/\ Count(hist.late[k], hist.replaced[i].before) > 0
              /\ Count(hist.late[k], hist.replaced[i].before) = Count(hist.late[k], hist.late))
                => Count(hist.late[k], hist.replaced[i].after) = 0
    /\ \A i \in 1..Len(hist.replaced) :
          cpc[hist.replaced[i].by] = "idle" => outcome[hist.replaced[i].by] = "returned"

\* C9 witness: the poller's row, appended between the compactor's last read and
\* its replace, was in the log before the replace and is in no line after it;
\* the compactor has returned and the poller went on to its next reading
C9_Witness ==
    /\ hist.replaced # << >>
    /\ Len(hist.late) = 1
    /\ Count(hist.late[1], hist.replaced[1].before) = 1
    /\ Count(hist.late[1], hist.replaced[1].after) = 0
    /\ Count(hist.late[1], log) = 0
    /\ hist.late[1].timestamp[1] >= now - 2880
    /\ cpc["c1"] = "idle" /\ outcome["c1"] = "returned" /\ ~failing["c1"]
    /\ pc["p1"] = "decide" /\ stage["p1"] = "litter"

\* C10: _ensure_log_header() creates nothing when the log is absent; on a log
\* whose first line is not the header it leaves the header followed by the whole
\* previous content; on a log that starts with the header it changes nothing.
\* What it leaves never needs repair, so a second application changes nothing.
C10_EnsureHeader ==
    \A p \in Pollers :
        pc[p] = "refresh"
            => /\ logExists = hist.ehExists
               /\ log = IF ~hist.ehExists THEN << >>
                        ELSE IF hist.ehPre = << >> \/ hist.ehPre[1] # HeaderLine
                        THEN <<HeaderLine>> \o hist.ehPre
                        ELSE hist.ehPre
               /\ ~NeedsHeader(logExists, log)

\* C10 witness: a headerless log with one row has been repaired
C10_Witness ==
    \E p \in Pollers :
        /\ pc[p] = "refresh"
        /\ hist.ehExists /\ hist.ehPre = <<LegacyRow>>
        /\ log = <<HeaderLine, LegacyRow>>

\* C11: starting from an absent log, whenever the log exists with content its
\* first line is the canonical header and no later line is the header.
C11_HeaderFirstAndOnce ==
    (logExists /\ log # << >>)
        => /\ log[1] = HeaderLine
           /\ \A i \in 2..Len(log) : log[i] # HeaderLine

\* Both processes found the log absent in log_reading() and each wrote the header
C11_HeaderTwiceReached ==
    /\ Len(log) = 4
    /\ log[1] = HeaderLine /\ log[3] = HeaderLine
    /\ log[2].type = "container" /\ log[4].type = "container"

\* Positions of the data rows of a log that carry a timestamp
Stamped(f) == {i \in 1..Len(f) : f[i] # HeaderLine /\ IsIso(f[i].timestamp)}

\* C17: in every reachable log the entries are in non-decreasing timestamp order,
\* so the last sent=true row of a kind in file order, the one should_send and
\* should_send_morning read, carries the greatest timestamp of its kind.
C17_Chronological ==
    /\ \A i, j \in Stamped(log) :
          i < j => log[i].timestamp[1] <= log[j].timestamp[1]
    /\ \A kind \in {"container", "litter", "morning"} :
          SentAt(log, kind) # {}
             => \A i \in SentAt(log, kind) :
                   log[i].timestamp[1] <= LastSentStamp(log, kind)

\* C12: with TEST_MODE set, an Urgent or Advisory reading of a kind that has no
\* sent=true entry in the log (a log that is absent or starts with the header)
\* is allowed to send at every hour of the day.
C12_BypassOpensQuietHours ==
    \A i \in 1..Len(hist.call) :
        (/\ TEST_MODE
         /\ Severity(hist.call[i].level, hist.call[i].type) # "None"
         /\ ~logExists \/ HasKeys(log)
         /\ SentAt(log, hist.call[i].type) = {})
            => hist.call[i].r = "True"

\* C13: a failed notification to one recipient, refused or raised, never prevents
\* the posts to the remaining recipients nor the rest of the cycle with its log
\* appends: every send_text() posts to every number and main() goes on.
C13_NotifyFailureIsolated ==
    \A i \in 1..Len(hist.notify) :
        /\ hist.notify[i].attempted = NPhones
        /\ ~hist.notify[i].aborted

\* A refused post (a response without success) is isolated: the second number
\* is still posted to and the cycle reaches the digest decision
C13_RefusedReached ==
    /\ hist.notify # << >>
    /\ hist.notify[1].what = "alert"
    /\ hist.notify[1].outs = <<"failed", "ok">>
    /\ hist.notify[1].attempted = 2
    /\ pc["p1"] = "morning"

\* A log that starts with the header, less its rows without a parsable timestamp
WellFormedRows(f) == <<f[1]>> \o SelectSeq(Tail(f), LAMBDA r : IsIso(r.timestamp))

\* C14: a malformed row never aborts the last-sent scan: should_send gives the
\* result it gives on the well-formed rows of the log alone.
C14_MalformedRowsSkipped ==
    \A i \in 1..Len(hist.call) :
        HasKeys(log)
            => hist.call[i].r = should_send(hist.call[i].level, hist.call[i].type,
                                            hist.call[i].t, TRUE, WellFormedRows(log))

\* cleanup_log() is between taking the lock and releasing it
Inside(c) == cpc[c] \in {"open", "header", "rows", "replace", "finally"}

\* C15: at most one cleanup_log() at a time is between opening the log for its
\* read and the end of its replace, and it is the holder of the lock; any other
\* one that was called waits at the lock.
C15_OneCompactorInside ==
    /\ \A c, d \in Compactors : (Inside(c) /\ Inside(d)) => c = d
    /\ \A c \in Compactors : Inside(c) => lock = c
    /\ \A c \in Compactors : (cpc[c] = "lock" /\ lock # NoOne) => lock # c

\* C15 witness: the second compactor waits at the lock while the first copies rows
C15_Witness ==
    /\ cpc["c1"] = "rows" /\ lock = "c1"
    /\ cpc["c2"] = "lock"
    /\ Len(tmp["c1"]) = 2

\* The second compactor reads the log the first one has installed
C15_WitnessAfter ==
    /\ outcome["c1"] = "returned" /\ cpc["c1"] = "idle"
    /\ cpc["c2"] = "rows" /\ lock = "c2"
    /\ hist.pre = <<HeaderLine, Old1>>

\* C16: with every process eventually scheduled, a cleanup_log() that waits for
\* the lock gets it, and every cleanup_log() that was called ends, on success
\* and on every failure path, with the lock released.
C16_CompactorsTerminate ==
    \A c \in {"c1", "c2"} :
        /\ (cpc[c] = "lock") ~> (lock = c)
        /\ (cpc[c] # "idle") ~> (cpc[c] = "idle" /\ lock # c)

\* C16 witness: the first compactor has failed and is about to release the lock
\* the second one waits for
C16_Witness ==
    /\ cpc["c1"] = "finally" /\ failing["c1"] /\ lock = "c1"
    /\ cpc["c2"] = "lock"

\* The throttle window that goes with the message main() would build for a
\* reading: 60 for the urgent text, 240 for the advisory one, none otherwise
MessageWindow(level, kind) ==
    LET msg == IF kind = "container" THEN container_level(level)
               ELSE litter_level_message(level)
    IN IF msg = "ALERT" THEN {60}
       ELSE IF msg \in {"Hey", "refill"} THEN {240}
       ELSE {}

\* C18: a level equal to a threshold is in the more severe tier (container 90
\* and litter 0.2 of optimal Urgent, container 70 and litter 0.6 Advisory), and
\* should_send throttles every level with the window of the tier whose message
\* container_level or litter_level_message builds for it.
C18_BoundaryTiers ==
    /\ \A i \in 1..Len(hist.call) :
          LET c == hist.call[i]
          IN (/\ InSendingHours(c.t)
              /\ HasKeys(log)
              /\ SentAt(log, c.type) # {}
              /\ IsIso(log[MaxOf(SentAt(log, c.type))].timestamp))
                 => (c.r = "True"
                        <=> \E w \in MessageWindow(c.level, c.type) :
                               c.t - LastSentStamp(log, c.type) >= w)
    /\ \A i \in 1..Len(hist.call) :
          LET c == hist.call[i]
          IN /\ (c.type = "container" /\ c.level = 90) => MessageWindow(c.level, c.type) = {60}
             /\ (c.type = "container" /\ c.level = 70) => MessageWindow(c.level, c.type) = {240}
             /\ (c.type = "litter" /\ c.level * 10 = 2 * 450)
                   => MessageWindow(c.level, c.type) = {60}
             /\ (c.type = "litter" /\ c.level * 10 = 6 * 450)
                   => MessageWindow(c.level, c.type) = {240}

\* C18 witness: a tray at exactly 90 % one hour after the last container alert
\* is sent again (the Urgent window), where 89 % would wait four hours
C18_Witness ==
    /\ hist.call # << >>
    /\ hist.call[1].type = "container" /\ hist.call[1].level = 90
    /\ HasKeys(log) /\ SentAt(log, "container") # {}
    /\ IsIso(log[MaxOf(SentAt(log, "container"))].timestamp)
    /\ hist.call[1].t - LastSentStamp(log, "container") = 60
    /\ hist.call[1].r = "True"

\* A litter level of exactly 0.6 of optimal, one hour after the last litter
\* alert, is held back by the Advisory window
C18_WitnessAdvisory ==
    /\ hist.call # << >>
    /\ hist.call[1].type = "litter" /\ hist.call[1].level = 270
    /\ HasKeys(log) /\ SentAt(log, "litter") # {}
    /\ IsIso(log[MaxOf(SentAt(log, "litter"))].timestamp)
    /\ hist.call[1].t - LastSentStamp(log, "litter") = 60
    /\ hist.call[1].r = "False"

\* C19: any two dispatches of an alert of the same kind are at least 1 hour
\* apart, and at least 4 hours when the later one is of Advisory severity
\* (hist.alertGap holds, for the latest dispatch, the time since the previous
\* dispatch of each kind it carried).
C19_AlertsThrottled ==
    \A g \in hist.alertGap :
        /\ g.gap >= 60
        /\ Severity(g.level, g.kind) = "Advisory" => g.gap >= 240

\* C20: with the bypass flag off, at most one morning digest is dispatched per
\* local calendar date (hist.digestDup holds the dates of a second dispatch).
C20_OneDigestPerDate ==
    ~TEST_MODE => hist.digestDup = {}

====
